---------------------------- MODULE Spec2Model ----------------------------
(***************************************************************************)
(* Model of docs/messages.py, the documentation localisation pipeline:     *)
(* extract_blocks (the block tokenizer), extract (the template catalog),   *)
(* update (the merge of the template into each locale catalog), generate   *)
(* (the completion gate and po2text, the regeneration of the documents)    *)
(* and check.                                                              *)
(*                                                                         *)
(* Texts are sequences of one-character strings, so that strip(), rstrip(),*)
(* "\n".join() and difflib's matching are computed, not assumed.  None is   *)
(* the empty tuple and a present value x is <<x>>.                          *)
(***************************************************************************)
EXTENDS Integers, Sequences, FiniteSets, TLC

VARIABLES
    \* extract_blocks, one generator run
    fileobj,      \* the lines of the file being tokenized (each with its "\n")
    lineno,       \* number of lines consumed so far
    token,        \* None or the block being accumulated
    messages,     \* the non-blank lines accumulated for it
    yielded,      \* the tokens yielded so far
    tpc,          \* "loop" | "done"
    \* extract, one run over the document tree
    tree,         \* the document tree: file -> None or its lines
    todo,         \* the files rglob has not produced yet
    visited,      \* the files in the order rglob produced them
    template,     \* the Catalog being built: its messages, in insertion order
    epc,          \* "idle" | "walk" | "written"
    \* the files under translations/
    pot,          \* messages.pot: None or the messages written
    po,           \* <locale>/messages.po: None or the catalog written
    \* the generated documents under src/
    out,          \* output directory -> None or (file name -> the chunks written)
    \* the last command run
    cmd,          \* "none" | "extract" | "update" | "generate" | "check" | "translate"
    stdout,       \* the lines it printed
    raised,       \* None or the exception that ended it, <<kind, locale>>
    status,       \* its exit status
    extracts      \* how many times extract has run

tokVars == <<fileobj, lineno, token, messages, yielded, tpc>>
extVars == <<tree, todo, visited, template, epc>>
runVars == <<po, out, cmd, stdout, raised, status, extracts>>
vars == <<fileobj, lineno, token, messages, yielded, tpc,
          tree, todo, visited, template, epc, pot,
          po, out, cmd, stdout, raised, status, extracts>>

(***************************************************************************)
(* Bounds                                                                  *)
(***************************************************************************)
MaxLines == 4

MaxExtracts == 2

MaxTotal == 29

MaxMissing == 4
MaxDocs == 3

(***************************************************************************)
(* Text helpers (Python's bytes.strip, str.rstrip, str.join)               *)
(***************************************************************************)
None == <<>>

Some(x) == <<x>>

Whitespace == {" ", "\n"}

RECURSIVE RStrip(_)
RStrip(s) ==
    IF s # <<>> /\ s[Len(s)] \in Whitespace
    THEN RStrip(SubSeq(s, 1, Len(s) - 1))
    ELSE s

RECURSIVE LStrip(_)
LStrip(s) ==
    IF s # <<>> /\ s[1] \in Whitespace THEN LStrip(Tail(s)) ELSE s

Strip(s) == LStrip(RStrip(s))

RECURSIVE Join(_)
Join(msgs) ==
    IF msgs = <<>> THEN <<>>
    ELSE IF Len(msgs) = 1 THEN msgs[1]
    ELSE msgs[1] \o <<"\n">> \o Join(Tail(msgs))

(***************************************************************************)
(* extract_blocks                                                          *)
(***************************************************************************)
\* The lines a file can hold: a line ends with "\n", except perhaps the last.
LineTexts == {<<>>, <<" ">>, <<"a">>, <<"b", " ">>, <<" ", "a">>}

TermLines == {l \o <<"\n">> : l \in LineTexts}

LastLines == TermLines \cup (LineTexts \ {<<>>})

RECURSIVE SeqsOf(_, _)
SeqsOf(S, n) ==
    IF n = 0 THEN {<<>>}
    ELSE LET shorter == SeqsOf(S, n - 1)
         IN shorter \cup {Append(s, x) : s \in {t \in shorter : Len(t) = n - 1}, x \in S}

FileObjs ==
    {<<>>} \cup {Append(s, l) : s \in SeqsOf(TermLines, MaxLines - 1), l \in LastLines}

\* token = [lineno, "", [], []]: the start line, funcname "", the text, the comments.
NewToken(n) == [lineno |-> n, funcname |-> <<>>, messages |-> <<>>, comments |-> <<>>]

\* One iteration of the for loop over the lines, on the generator's locals.
LoopBody(st, text) ==
    LET n == st.lineno + 1
        tok == IF st.token = None THEN NewToken(n) ELSE st.token[1]
        msgs == IF st.token = None THEN <<>> ELSE st.messages
    IN IF Strip(text) # <<>>
       THEN [lineno |-> n, token |-> Some(tok),
             messages |-> Append(msgs, RStrip(text)), yielded |-> st.yielded]
       ELSE [lineno |-> n, token |-> None, messages |-> <<>>,
             yielded |-> IF Len(msgs) > 0
                         THEN Append(st.yielded, [tok EXCEPT !.messages = Join(msgs)])
                         ELSE st.yielded]

\* A plausible slip: nothing is yielded after the loop.
AfterLoopForgotten(st) == st.yielded

\* The statement after the loop: the last block of a file that ends without a blank line.
AfterLoop(st) ==
    IF st.token # None /\ Len(st.messages) > 0
    THEN Append(st.yielded, [st.token[1] EXCEPT !.messages = Join(st.messages)])
    ELSE st.yielded

ExtIdle ==
    /\ tree = None /\ todo = {} /\ visited = <<>> /\ template = <<>> /\ epc = "idle"

(***************************************************************************)
(* The directories under translations/ and the output directories          *)
(***************************************************************************)
de == <<"d", "e">>

en_US == <<"e", "n", "_", "U", "S">>

pt_BR == <<"p", "t", "_", "B", "R">>

\* The locale directories, in ascending order of their path.
Locales == <<de, en_US, pt_BR>>

LocaleSet == {Locales[i] : i \in 1..Len(Locales)}

\* str.replace("_", "-")
Replace(code) == [i \in 1..Len(code) |-> IF code[i] = "_" THEN "-" ELSE code[i]]

\* The output directories: src/en-US holds the source documents.
DestDirs == {Replace(l) : l \in LocaleSet \ {en_US}}

\* Nothing under translations/ but the locale directories, nothing generated.
RunIdle ==
    /\ po = [l \in LocaleSet |-> None]
    /\ out = [d \in DestDirs |-> None]
    /\ cmd = "none" /\ stdout = <<>> /\ raised = None /\ status = 0 /\ extracts = 0

TokInit ==
    /\ fileobj \in FileObjs
    /\ lineno = 0
    /\ token = None
    /\ messages = <<>>
    /\ yielded = <<>>
    /\ tpc = "loop"
    /\ ExtIdle
    /\ pot = None
    /\ RunIdle

TokLine ==
    /\ tpc = "loop"
    /\ lineno < Len(fileobj)
    /\ LET st == LoopBody([lineno |-> lineno, token |-> token,
                           messages |-> messages, yielded |-> yielded],
                          fileobj[lineno + 1])
       IN /\ lineno' = st.lineno
          /\ token' = st.token
          /\ messages' = st.messages
          /\ yielded' = st.yielded
    /\ UNCHANGED <<fileobj, tpc, extVars, pot, runVars>>

TokEnd ==
    /\ tpc = "loop"
    /\ lineno = Len(fileobj)
    /\ yielded' = AfterLoop([lineno |-> lineno, token |-> token,
                             messages |-> messages, yielded |-> yielded])
    /\ tpc' = "done"
    /\ UNCHANGED <<fileobj, lineno, token, messages, extVars, pot, runVars>>

TokNext == TokLine \/ TokEnd

SpecTok == TokInit /\ [][TokNext]_vars

(***************************************************************************)
(* C1: what extract_blocks yields, stated from the input alone             *)
(***************************************************************************)
NonBlank(lines, i) == \E j \in 1..Len(lines[i]) : lines[i][j] \notin Whitespace

\* The maximal runs of consecutive non-blank lines, as <<first, last>>.
Runs(lines) ==
    {r \in (1..Len(lines)) \X (1..Len(lines)) :
        /\ r[1] <= r[2]
        /\ \A i \in r[1]..r[2] : NonBlank(lines, i)
        /\ (r[1] = 1 \/ ~NonBlank(lines, r[1] - 1))
        /\ (r[2] = Len(lines) \/ ~NonBlank(lines, r[2] + 1))}

\* A line of a run as the block holds it: without its trailing whitespace
\* (the line terminator included).
RunText(lines, r) == Join([k \in 1..(r[2] - r[1] + 1) |-> RStrip(lines[r[1] + k - 1])])

Files == << <<"en-US", "a", "x.md">>, <<"en-US", "b", "x.md">>, <<"en-US", "y.md">> >>

FileSet == {Files[i] : i \in 1..Len(Files)}

\* Python's order on the path strings.
FileRank(p) == CHOOSE i \in 1..Len(Files) : Files[i] = p

abc == <<"a", "b", "c">>

abd == <<"a", "b", "d">>

xy == <<"x", "y">>

\* The contents a file of the tree can have.
Docs ==
    { <<abc \o <<"\n">>>>,
      <<abd \o <<"\n">>>>,
      <<abc \o <<"\n">>, <<"\n">>, xy \o <<"\n">>>>,
      <<abc \o <<" ", "\n">>, <<" ", "\n">>, abc \o <<"\n">>>>,
      <<<<"\n">>, xy>> }

Trees == [FileSet -> {None} \cup {Some(d) : d \in Docs}]

Present(tr) == {f \in FileSet : tr[f] # None}

\* list(distinct(locations)): the first occurrence of each element, in order.
RECURSIVE Distinct(_)
Distinct(s) ==
    IF s = <<>> THEN <<>>
    ELSE LET front == Distinct(SubSeq(s, 1, Len(s) - 1))
             last == s[Len(s)]
         IN IF \E i \in 1..Len(front) : front[i] = last THEN front ELSE Append(front, last)

\* Message(id, string, locations): flags are reduced to the fuzzy flag.
Message(id, string, locations) ==
    [id |-> id, string |-> string, locations |-> Distinct(locations), fuzzy |-> FALSE]

\* The position of the message with this key in the ordered dict, 0 if none.
IndexOf(msgs, id) ==
    IF \E i \in 1..Len(msgs) : msgs[i].id = id
    THEN CHOOSE i \in 1..Len(msgs) : msgs[i].id = id
    ELSE 0

Ids(msgs) == {msgs[i].id : i \in 1..Len(msgs)}

\* A plausible slip: the later occurrence replaces the locations of the entry.
CatalogAddReplacing(msgs, id, string, locations) ==
    LET i == IndexOf(msgs, id)
    IN IF i # 0
       THEN [msgs EXCEPT ![i].locations = Distinct(locations)]
       ELSE Append(msgs, Message(id, string, locations))

\* Catalog.add, that is Catalog.__setitem__: a message whose key the catalog
\* holds gets the new locations appended (distinct), another one is inserted.
CatalogAdd(msgs, id, string, locations) ==
    LET i == IndexOf(msgs, id)
    IN IF i # 0
       THEN [msgs EXCEPT ![i].locations = Distinct(@ \o locations)]
       ELSE Append(msgs, Message(id, string, locations))

\* extract_blocks run to its end on the lines of a file.
RECURSIVE BlockLoop(_, _)
BlockLoop(st, lines) ==
    IF st.lineno = Len(lines) THEN st ELSE BlockLoop(LoopBody(st, lines[st.lineno + 1]), lines)

extract_blocks(lines) ==
    AfterLoop(BlockLoop([lineno |-> 0, token |-> None, messages |-> <<>>, yielded |-> <<>>],
                        lines))

\* The inner loop of extract from its state st (n blocks of file f consumed):
\* template.add(message, None, [(str(f.relative_to(ROOT)), lineno)]).
RECURSIVE AddLoop(_, _, _)
AddLoop(st, f, blocks) ==
    IF st.n = Len(blocks) THEN st
    ELSE LET block == blocks[st.n + 1]
         IN AddLoop([n |-> st.n + 1,
                     template |-> CatalogAdd(st.template, block.messages, <<>>,
                                             <<<<f, block.lineno>>>>)],
                    f, blocks)

\* The template after the blocks of file f were added to it.
AddBlocks(msgs, f, blocks) == AddLoop([n |-> 0, template |-> msgs], f, blocks).template

(***************************************************************************)
(* write_po / read_po                                                      *)
(***************************************************************************)
LocLess(a, b) ==
    \/ FileRank(a[1]) < FileRank(b[1])
    \/ a[1] = b[1] /\ a[2] < b[2]

\* Python's order on lists of (filename, lineno) tuples.
RECURSIVE LocsLess(_, _)
LocsLess(s, t) ==
    IF t = <<>> THEN FALSE
    ELSE IF s = <<>> THEN TRUE
    ELSE IF s[1] = t[1] THEN LocsLess(Tail(s), Tail(t))
    ELSE LocLess(s[1], t[1])

\* The order of the sort keys the program uses: the (filename, lineno) of a
\* location, the locations of a message, the line of a (name, lineno, msg).
KeyLess(key, x, y) ==
    CASE key = "location" -> LocLess(x, y)
      [] key = "locations" -> LocsLess(x.locations, y.locations)
      [] key = "lineno" -> x[2] < y[2]

\* Python's sorted and list.sort, which are stable: the elements are taken in
\* turn (st.n of them so far), each goes behind those that are not greater.
RECURSIVE SortLoop(_, _, _)
SortLoop(st, s, key) ==
    IF st.n = Len(s) THEN st
    ELSE LET x == s[st.n + 1]
             k == Cardinality({j \in 1..Len(st.sorted) : ~KeyLess(key, x, st.sorted[j])})
         IN SortLoop([n |-> st.n + 1,
                      sorted |-> SubSeq(st.sorted, 1, k) \o <<x>>
                                 \o SubSeq(st.sorted, k + 1, Len(st.sorted))],
                     s, key)

StableSort(s, key) == SortLoop([n |-> 0, sorted |-> <<>>], s, key).sorted

\* sorted(message.locations, key=(filename, lineno))
SortLocs(s) == StableSort(s, "location")

\* messages.sort(key=lambda m: m.locations) (sort_by_file=True)
SortMessages(s) == StableSort(s, "locations")

\* The messages as write_po(sort_by_file=True, include_lineno=True) writes them
\* and read_po reads them back: sorted by their locations, each "#:" comment
\* listing the locations sorted by file and line, once each.
WriteMessages(msgs) ==
    LET sorted == SortMessages(msgs)
        written == [i \in 1..Len(sorted) |->
                       [sorted[i] EXCEPT !.locations = Distinct(SortLocs(sorted[i].locations))]]
    IN SubSeq(written, 1, Len(written))

(***************************************************************************)
(* extract                                                                 *)
(***************************************************************************)
TokIdle ==
    /\ fileobj = <<>> /\ lineno = 0 /\ token = None /\ messages = <<>>
    /\ yielded = <<>> /\ tpc = "idle"

ExtInit ==
    /\ TokIdle
    /\ tree \in Trees
    /\ todo = Present(tree)
    /\ visited = <<>>
    /\ template = <<>>
    /\ epc = "walk"
    /\ pot = None
    /\ RunIdle

\* One file of the rglob, whose order the file system decides.
ExtFile ==
    /\ epc = "walk"
    /\ \E f \in todo :
          /\ template' = AddBlocks(template, f, extract_blocks(tree[f][1]))
          /\ todo' = todo \ {f}
          /\ visited' = Append(visited, f)
    /\ UNCHANGED <<tokVars, tree, epc, pot, runVars>>

\* write_po(fp, template, ...) into translations/messages.pot.
ExtWrite ==
    /\ epc = "walk"
    /\ todo = {}
    /\ pot' = Some(WriteMessages(template))
    /\ epc' = "written"
    /\ UNCHANGED <<tokVars, tree, todo, visited, template, runVars>>

ExtNext == ExtFile \/ ExtWrite

SpecExtract == ExtInit /\ [][ExtNext]_vars

(***************************************************************************)
(* C2: the template catalog after extract, stated from the tree            *)
(***************************************************************************)
\* Every block of the tree: <<file, start line, text>>.
Occurrences(tr) ==
    UNION {{<<f, r[1], RunText(tr[f][1], r)>> : r \in Runs(tr[f][1])} : f \in Present(tr)}

VisitPos(f) == CHOOSE i \in 1..Len(visited) : visited[i] = f

\* C2: after extract the template holds exactly one entry per distinct block
\* text; its locations are all the (file, start line) occurrences of the text,
\* each once, in the order they were visited; every entry has an empty
\* translation and at least one location.
C2_OneEntryPerText ==
    (epc # "idle" /\ todo = {}) =>
        /\ Ids(template) = {o[3] : o \in Occurrences(tree)}
        /\ \A i, j \in 1..Len(template) : template[i].id = template[j].id => i = j
        /\ \A i \in 1..Len(template) :
              LET m == template[i]
                  locs == m.locations
              IN /\ m.string = <<>>
                 /\ Len(locs) >= 1
                 /\ {locs[a] : a \in 1..Len(locs)} =
                        {<<o[1], o[2]>> : o \in {q \in Occurrences(tree) : q[3] = m.id}}
                 /\ \A a, b \in 1..Len(locs) :
                       a < b =>
                          \/ VisitPos(locs[a][1]) < VisitPos(locs[b][1])
                          \/ locs[a][1] = locs[b][1] /\ locs[a][2] < locs[b][2]

\* A text that occurs twice in one file and once in another file has been
\* extracted into a single entry with three locations.
C2_Witness ==
    /\ epc = "written"
    /\ \E i \in 1..Len(template) :
          /\ Len(template[i].locations) = 3
          /\ template[i].locations[1][1] = template[i].locations[2][1]
          /\ template[i].locations[3][1] # template[i].locations[1][1]

(***************************************************************************)
(* difflib.get_close_matches, as Catalog.update calls it                   *)
(***************************************************************************)
\* Python's order on the characters of the model (their code points).
Chars == <<"\n", " ", "T", "a", "b", "c", "d", "x", "y">>

CharRank(c) == CHOOSE i \in 1..Len(Chars) : Chars[i] = c

RECURSIVE StrLess(_, _)
StrLess(s, t) ==
    IF t = <<>> THEN FALSE
    ELSE IF s = <<>> THEN TRUE
    ELSE IF s[1] = t[1] THEN StrLess(Tail(s), Tail(t))
    ELSE CharRank(s[1]) < CharRank(t[1])

\* str.lower on the characters of the model.
LowerChar(c) == IF c = "T" THEN "t" ELSE c

\* Catalog._to_fuzzy_match_key: key.lower().strip().
FuzzyKey(id) == Strip([i \in 1..Len(id) |-> LowerChar(id[i])])

Min(S) == CHOOSE x \in S : \A y \in S : x <= y

Max(S) == CHOOSE x \in S : \A y \in S : x >= y

\* The block find_longest_match returns among the matching blocks <<i, j, k>>:
\* the longest, the one starting earliest in a and then earliest in b.
BestBlock(blocks) ==
    LET k == Max({t[3] : t \in blocks})
        i == Min({t[1] : t \in {u \in blocks : u[3] = k}})
    IN <<i, Min({t[2] : t \in {u \in blocks : u[3] = k /\ u[1] = i}}), k>>

\* The matching blocks of a[alo+1..ahi] and b[blo+1..bhi] (0-based half-open
\* ranges as in difflib).
MatchingBlocks(a, b, alo, ahi, blo, bhi) ==
    {t \in (alo..(ahi - 1)) \X (blo..(bhi - 1)) \X (1..(ahi - alo)) :
        /\ t[1] + t[3] <= ahi
        /\ t[2] + t[3] <= bhi
        /\ \A d \in 1..t[3] : a[t[1] + d] = b[t[2] + d]}

\* SequenceMatcher.find_longest_match; k = 0 if nothing matches.
LongestOf(blocks, alo, blo) == IF blocks = {} THEN <<alo, blo, 0>> ELSE BestBlock(blocks)

FindLongestMatch(a, b, alo, ahi, blo, bhi) ==
    LongestOf(MatchingBlocks(a, b, alo, ahi, blo, bhi), alo, blo)

\* The number of matching characters SequenceMatcher.get_matching_blocks finds:
\* the longest match m, and the matches on its left and on its right.
RECURSIVE Matches(_, _, _, _, _, _)
RECURSIVE MatchesAround(_, _, _, _, _, _, _)
MatchesAround(a, b, alo, ahi, blo, bhi, m) ==
    IF m[3] = 0 THEN 0
    ELSE Matches(a, b, alo, m[1], blo, m[2]) + m[3]
         + Matches(a, b, m[1] + m[3], ahi, m[2] + m[3], bhi)

Matches(a, b, alo, ahi, blo, bhi) ==
    IF alo >= ahi \/ blo >= bhi THEN 0
    ELSE MatchesAround(a, b, alo, ahi, blo, bhi, FindLongestMatch(a, b, alo, ahi, blo, bhi))

\* ratio() = 2 * matches / (len(a) + len(b)), as the pair <<2 * matches, total>>.
Ratio(a, b) == <<2 * Matches(a, b, 0, Len(a), 0, Len(b)), Len(a) + Len(b)>>

\* ratio >= 0.6, the default cutoff.
ReachesCutoff(r) == r[2] > 0 /\ 10 * r[1] >= 6 * r[2]

IsClose(a, b) == ReachesCutoff(Ratio(a, b))

\* (ratio rx, x) > (ratio ry, y), the order of the result list.
Better(rx, x, ry, y) ==
    \/ rx[1] * ry[2] > ry[1] * rx[2]
    \/ rx[1] * ry[2] = ry[1] * rx[2] /\ StrLess(y, x)

\* The best of the close possibilities, if any.
BestOf(close, word) ==
    IF close = {} THEN <<>>
    ELSE <<CHOOSE x \in close :
              \A y \in close \ {x} : Better(Ratio(x, word), x, Ratio(y, word), y)>>

\* get_close_matches(word, possibilities, 1): the possibilities that reach the
\* cutoff, the best of them by (ratio, possibility); <<>> or <<the best one>>.
get_close_matches(word, possibilities) ==
    BestOf({x \in possibilities : IsClose(x, word)}, word)

(***************************************************************************)
(* Catalog.update(template), called with its defaults: fuzzy matching on   *)
(***************************************************************************)
OldMsg(old, id) == old[IndexOf(old, id)]

\* fuzzy_candidates: the fuzzy keys of the old messages that have a string.
CandidateKeys(old) == {FuzzyKey(old[i].id) : i \in {j \in 1..Len(old) : old[j].string # <<>>}}

\* fuzzy_candidates[fk]: the dict keeps the last message inserted under a key.
CandidateId(old, fk) ==
    old[Max({i \in 1..Len(old) : old[i].string # <<>> /\ FuzzyKey(old[i].id) = fk})].id

\* Plausible slips: the old locations are kept; a fuzzy match is not flagged;
\* the old fuzzy flag is dropped.
MergeOldLocations(tmsg, oldmsg, fuzzy) ==
    [id |-> tmsg.id, string |-> oldmsg.string, locations |-> oldmsg.locations,
     fuzzy |-> tmsg.fuzzy \/ oldmsg.fuzzy \/ fuzzy]

MergeUnflagged(tmsg, oldmsg, fuzzy) ==
    [id |-> tmsg.id, string |-> oldmsg.string, locations |-> tmsg.locations,
     fuzzy |-> tmsg.fuzzy \/ oldmsg.fuzzy]

MergeReviewed(tmsg, oldmsg, fuzzy) ==
    [id |-> tmsg.id, string |-> oldmsg.string, locations |-> tmsg.locations,
     fuzzy |-> tmsg.fuzzy \/ fuzzy]

\* _merge(message, oldkey, newkey): the template's message with the old
\* message's string and flags, flagged fuzzy when the keys differ.
Merge(tmsg, oldmsg, fuzzy) ==
    [id |-> tmsg.id, string |-> oldmsg.string, locations |-> tmsg.locations,
     fuzzy |-> tmsg.fuzzy \/ oldmsg.fuzzy \/ fuzzy]

\* The key of the candidate get_close_matches found, if it found one.
FoundKey(old, found) == IF found # <<>> THEN Some(CandidateId(old, found[1])) ELSE None

\* The key of the old message a template message is merged with: its own key
\* if the old catalog holds it, else the closest fuzzy candidate, else None.
OldKey(old, tmsg) ==
    IF tmsg.id \in Ids(old) THEN Some(tmsg.id)
    ELSE FoundKey(old, get_close_matches(FuzzyKey(tmsg.id), CandidateKeys(old)))

\* The message the template's becomes once merged with the one under oldkey.
Merged(old, tmsg, oldkey) ==
    IF oldkey = None THEN tmsg
    ELSE Merge(tmsg, OldMsg(old, oldkey[1]), oldkey[1] # tmsg.id)

\* The body of "for message in template": what self[message.id] becomes.
UpdateMessage(old, tmsg) == Merged(old, tmsg, OldKey(old, tmsg))

\* The old keys the fuzzy matches used.
FuzzyMatches(old, tmpl) ==
    {k[1] : k \in {OldKey(old, tmpl[i]) : i \in {j \in 1..Len(tmpl) : tmpl[j].id \notin Ids(old)}}
                  \ {None}}

\* The obsolete messages once the messages of the keys in dropped joined them.
Obsolete(catalog, dropped) ==
    {o \in catalog.obsolete : o.id \notin dropped}
    \cup {[id |-> id, string |-> OldMsg(catalog.messages, id).string] : id \in dropped}

\* Catalog.update: the new messages are the template's, in its order (its keys
\* are distinct, so that each iteration inserts one message); an old message
\* that was neither matched exactly nor used by a fuzzy match goes to
\* catalog.obsolete, which keeps what it held.
CatalogUpdate(catalog, tmpl) ==
    [locale |-> catalog.locale,
     messages |-> [i \in 1..Len(tmpl) |-> UpdateMessage(catalog.messages, tmpl[i])],
     obsolete |-> Obsolete(catalog,
                           (Ids(catalog.messages) \ Ids(tmpl))
                           \ FuzzyMatches(catalog.messages, tmpl))]

(***************************************************************************)
(* Helpers of the runs                                                     *)
(***************************************************************************)
\* The sequences that list each element of S once.
Orders(S) ==
    {s \in [1..Cardinality(S) -> S] : \A i, j \in 1..Cardinality(S) : s[i] = s[j] => i = j}

\* sorted(po_files)
Sorted(S) == SelectSeq(Locales, LAMBDA l : l \in S)

\* Catalog(**CATALOG_OPTIONS, locale=p.name, domain=po_file.name)
NewCatalog(l) == [locale |-> l, messages |-> <<>>, obsolete |-> {}]

\* write_po(fp, catalog, sort_by_file=True, include_previous=False): the
\* obsolete messages are written too (ignore_obsolete is not set).
WriteCatalog(catalog) == [catalog EXCEPT !.messages = WriteMessages(@)]

(***************************************************************************)
(* update                                                                  *)
(***************************************************************************)
\* The body of "for p in dirs", until a directory's messages.po cannot be
\* opened (bad): the exception is not caught and ends the run.
RECURSIVE UpdateDirs(_, _, _, _)
UpdateDirs(st, dirs, bad, tmpl) ==
    IF dirs = <<>> THEN st
    ELSE LET p == dirs[1]
         IN IF bad = Some(p)
            THEN [st EXCEPT !.raised = Some(<<"OSError", p>>)]
            ELSE LET catalog == IF st.po[p] # None THEN st.po[p][1] ELSE NewCatalog(p)
                     updated == CatalogUpdate(catalog, tmpl)
                 IN UpdateDirs([st EXCEPT !.po[p] = Some(WriteCatalog(updated)),
                                          !.stdout = Append(@, <<"written", p>>)],
                               Tail(dirs), bad, tmpl)

(***************************************************************************)
(* generate                                                                *)
(***************************************************************************)
\* The cutoff, in hundredths.
COMPLETION_CUTOFF == 90

\* The three tests that keep a message out of nb_translated.
Skipped(m, tm) == m.fuzzy \/ tm.string = m.string \/ Strip(m.string) = <<>>

\* The loop that counts nb_translated; None when template._messages[k] raises
\* KeyError.
CountTranslated(msgs, tmpl) ==
    IF \E i \in 1..Len(msgs) : msgs[i].id \notin Ids(tmpl) THEN None
    ELSE Some(Cardinality({i \in 1..Len(msgs) : ~Skipped(msgs[i], OldMsg(tmpl, msgs[i].id))}))

\* round(num / den) on floats: to the nearest integer, a tie to the even one
\* (num / den is exact for every tie a total below 40 can produce).
Round(num, den) ==
    LET q == num \div den
        r == num % den
    IN IF 2 * r > den \/ (2 * r = den /\ q % 2 = 1) THEN q + 1 ELSE q

\* A plausible slip: the fraction is compared as it is, not rounded.
BelowCutoffUnrounded(nb_translated, total_strings) ==
    100 * nb_translated < COMPLETION_CUTOFF * total_strings

\* round(pct, 2) < COMPLETION_CUTOFF
BelowCutoff(nb_translated, total_strings) ==
    Round(100 * nb_translated, total_strings) < COMPLETION_CUTOFF

\* A plausible slip: a fuzzy translation is written as if it were reviewed.
MsgTextFuzzy(m) == IF Strip(m.string) = <<>> THEN m.id ELSE m.string

\* The text po2text writes for a message.
MsgText(m) == IF m.fuzzy \/ Strip(m.string) = <<>> THEN m.id ELSE m.string

\* Path(x[0]).name
Name(path) == path[Len(path)]

\* The (name, lineno, msg) of the locations of a message.
Entries(m) ==
    [j \in 1..Len(m.locations) |->
        <<Name(m.locations[j][1]), m.locations[j][2], MsgText(m)>>]

\* "for m in catalog._messages.values()", st.n messages done: the entries in
\* the order they are appended; files[name] is those of that name.
RECURSIVE FilesLoop(_, _)
FilesLoop(st, msgs) ==
    IF st.n = Len(msgs) THEN st
    ELSE FilesLoop([n |-> st.n + 1, entries |-> st.entries \o Entries(msgs[st.n + 1])], msgs)

\* for x in messages: fp.write(x[1]); fp.write("\n\n")
Written(entries) ==
    [c \in 1..(2 * Len(entries)) |->
        IF c % 2 = 1 THEN entries[(c + 1) \div 2][3] ELSE <<"\n", "\n">>]

\* po2text: file name -> the chunks written to destdir / name.
po2text(catalog) ==
    LET entries == FilesLoop([n |-> 0, entries |-> <<>>], catalog.messages).entries
        names == {entries[i][1] : i \in 1..Len(entries)}
        files(k) == StableSort(SelectSeq(entries, LAMBDA e : e[1] = k), "lineno")
    IN [k \in names |-> Written(files(k))]

\* The files of a directory after po2text wrote into it.
WriteFiles(dir, files) ==
    LET before == IF dir = None THEN <<>> ELSE dir[1]
    IN Some([k \in DOMAIN before \cup DOMAIN files |->
                IF k \in DOMAIN files THEN files[k] ELSE before[k]])

\* The body of "for po_file in sorted(po_files)".
RECURSIVE GenerateFiles(_, _, _, _)
GenerateFiles(st, codes, bad, tmpl) ==
    IF codes = <<>> THEN st
    ELSE LET code == codes[1]
             total_strings == Len(tmpl)
         IN IF code = en_US THEN GenerateFiles(st, Tail(codes), bad, tmpl)
            ELSE IF bad = Some(code) THEN [st EXCEPT !.raised = Some(<<"OSError", code>>)]
            ELSE LET catalog == po[code][1]
                     counted == CountTranslated(catalog.messages, tmpl)
                 IN IF counted = None
                    THEN [st EXCEPT !.raised = Some(<<"KeyError", code>>)]
                    ELSE IF total_strings = 0
                    THEN [st EXCEPT !.raised = Some(<<"ZeroDivisionError", code>>)]
                    ELSE LET nb_translated == counted[1]
                             info == <<nb_translated, total_strings,
                                       Round(100 * nb_translated, total_strings)>>
                             destdir == Replace(catalog.locale)
                         IN IF BelowCutoff(nb_translated, total_strings)
                            THEN GenerateFiles(
                                    [st EXCEPT !.stdout = Append(@, <<"[-]", code, info>>)],
                                    Tail(codes), bad, tmpl)
                            ELSE GenerateFiles(
                                    [st EXCEPT
                                       !.out[destdir] = WriteFiles(@, po2text(catalog)),
                                       !.stdout = Append(@, <<"[+]", code, info>>)],
                                    Tail(codes), bad, tmpl)

(***************************************************************************)
(* check                                                                   *)
(***************************************************************************)
\* The body of "for filename in po_files"; catalog.check() is babel's and finds
\* errors in the catalogs of withErrors.
RECURSIVE CheckFiles(_, _, _, _)
CheckFiles(st, codes, bad, withErrors) ==
    IF codes = <<>> THEN st
    ELSE LET code == codes[1]
         IN IF code = en_US THEN CheckFiles(st, Tail(codes), bad, withErrors)
            ELSE IF bad = Some(code) THEN [st EXCEPT !.raised = Some(<<"OSError", code>>)]
            ELSE IF code \in withErrors
            THEN CheckFiles([st EXCEPT !.has_errors = TRUE,
                                       !.stdout = Append(@, <<"[ERRORS]", code>>)],
                            Tail(codes), bad, withErrors)
            ELSE CheckFiles([st EXCEPT !.stdout = Append(@, <<"[OK]", code>>)],
                            Tail(codes), bad, withErrors)

(***************************************************************************)
(* extract, update and the translators: the life of the catalogs           *)
(***************************************************************************)
\* extract's loops over the files (in the order given) and their blocks.
RECURSIVE ExtractFiles(_, _, _)
ExtractFiles(msgs, tr, order) ==
    IF order = <<>> THEN msgs
    ELSE ExtractFiles(AddBlocks(msgs, order[1], extract_blocks(tr[order[1]][1])),
                      tr, Tail(order))

\* What extract writes to messages.pot for a tree, whatever the order of rglob.
PotsOf(tr) == {WriteMessages(ExtractFiles(<<>>, tr, order)) : order \in Orders(Present(tr))}

\* The trees the documentation goes through: y.md is reworded, grows and
\* shrinks, a/x.md comes and goes.
SyncTrees ==
    {tr \in Trees :
        /\ tr[Files[2]] = None
        /\ tr[Files[1]] \in {None, Some(<<abc \o <<"\n">>>>)}
        /\ tr[Files[3]] \in {None, Some(<<abc \o <<"\n">>>>), Some(<<abd \o <<"\n">>>>),
                             Some(<<abc \o <<"\n">>, <<"\n">>, xy \o <<"\n">>>>)}}

SyncPots == UNION {PotsOf(tr) : tr \in SyncTrees}

SyncInit ==
    /\ TokIdle
    /\ ExtIdle
    /\ pot = None
    /\ RunIdle

\* extract, over the tree as the authors left it.
Extract ==
    /\ extracts < MaxExtracts
    /\ \E p \in SyncPots : pot' = Some(p)
    /\ extracts' = extracts + 1
    /\ cmd' = "extract"
    /\ stdout' = <<<<"writen">>>>
    /\ raised' = None
    /\ status' = 0
    /\ UNCHANGED <<tokVars, extVars, po, out>>

\* The locale whose messages.po cannot be opened during a run, if any.
BadChoices == {None} \cup {Some(l) : l \in LocaleSet}

\* update: iterdir lists the directories in one of the orders; bads are the
\* failures the run can meet.
UpdateRun(bads, orders) ==
    /\ cmd' = "update"
    /\ IF pot = None
       THEN /\ raised' = Some(<<"FileNotFoundError", <<>>>>)
            /\ stdout' = <<>>
            /\ status' = 1
            /\ po' = po
       ELSE \E dirs \in orders, bad \in bads :
               LET st == UpdateDirs([po |-> po, stdout |-> <<>>, raised |-> None],
                                    dirs, bad, pot[1])
               IN /\ po' = st.po
                  /\ stdout' = st.stdout
                  /\ raised' = st.raised
                  /\ status' = IF st.raised = None THEN 0 ELSE 1
    /\ UNCHANGED <<tokVars, extVars, pot, out, extracts>>

\* update on a file system that works and lists the directories in one order:
\* a run that a failure ends leaves the catalogs it did not reach as a later
\* run finds them, and the order shows in the order of the lines printed only.
Update == UpdateRun({None}, {Locales})

\* What a translator writes for a message.
Tr(id) == <<"T">> \o id

\* A translator translates a message of a locale catalog, or reviews a fuzzy one.
Translate ==
    /\ \E l \in LocaleSet \ {en_US} :
          /\ po[l] # None
          /\ \E i \in 1..Len(po[l][1].messages) :
                /\ po[l][1].messages[i].string # Tr(po[l][1].messages[i].id)
                   \/ po[l][1].messages[i].fuzzy
                /\ po' = [po EXCEPT ![l][1].messages[i].string = Tr(po[l][1].messages[i].id),
                                    ![l][1].messages[i].fuzzy = FALSE]
    /\ cmd' = "translate"
    /\ stdout' = <<>>
    /\ raised' = None
    /\ status' = 0
    /\ UNCHANGED <<tokVars, extVars, pot, out, extracts>>

SyncNext == Extract \/ Update \/ Translate

SpecSync == SyncInit /\ [][SyncNext]_vars

(***************************************************************************)
(* Claims about update                                                     *)
(***************************************************************************)
\* The messages of a locale catalog, none if it has no file.
MessagesOf(files, l) == IF files[l] = None THEN <<>> ELSE files[l][1].messages

\* The template a run of update reads.
TemplateRead == IF pot = None THEN <<>> ELSE pot[1]

\* An update run that read the template.
UpdateStep == cmd' = "update" /\ pot # None

\* C3: a run of update keeps, for every entry that is translated and not fuzzy
\* in a locale catalog and whose identity the template holds, the translated
\* string and fuzzy = false, and gives it the locations the template has for
\* it; as every run does, so does any number of them.
C3_UpdateKeepsTranslations ==
    [][UpdateStep =>
         \A l \in LocaleSet : \A i \in 1..Len(MessagesOf(po, l)) :
            LET m == MessagesOf(po, l)[i]
            IN (m.string # <<>> /\ ~m.fuzzy /\ m.id \in Ids(TemplateRead)) =>
                  \E j \in 1..Len(MessagesOf(po', l)) :
                     MessagesOf(po', l)[j] =
                        [id |-> m.id, string |-> m.string, fuzzy |-> FALSE,
                         locations |-> OldMsg(TemplateRead, m.id).locations]]_vars

\* update has run on a catalog that held a translation, whose entry now has
\* the two locations of the template.
C3_Witness ==
    /\ cmd = "update"
    /\ raised = None
    /\ \E i \in 1..Len(MessagesOf(po, de)) :
          LET m == MessagesOf(po, de)[i]
          IN m.string = Tr(m.id) /\ ~m.fuzzy /\ Len(m.locations) = 2

\* The ratio of SequenceMatcher reaches 0.6 for the fuzzy keys of two identities.
CloseIds(id1, id2) ==
    LET r == Ratio(FuzzyKey(id1), FuzzyKey(id2))
    IN r[2] > 0 /\ 10 * r[1] >= 6 * r[2]

\* C4, as the claim states it: after update a locale catalog holds the
\* identities of the template and nothing else, not even as obsolete entries,
\* and an entry whose identity the catalog did not hold has an empty
\* translation and fuzzy = false.
C4_ExactIdentityOnly ==
    [][UpdateStep =>
         \A l \in LocaleSet :
            /\ po'[l] # None
            /\ Ids(MessagesOf(po', l)) = Ids(TemplateRead)
            /\ po'[l][1].obsolete = {}
            /\ \A j \in 1..Len(MessagesOf(po', l)) :
                  LET e == MessagesOf(po', l)[j]
                  IN e.id \notin Ids(MessagesOf(po, l)) => e.string = <<>> /\ ~e.fuzzy]_vars

\* C4, amended: after update the entries of a locale catalog are those of the
\* template's identities; an entry whose identity the template lost is kept as
\* an obsolete entry unless a fuzzy match used its translation; an entry whose
\* identity the catalog did not hold has an empty translation and fuzzy =
\* false, or the translation of an entry with a close identity and fuzzy = true.
C4_FuzzyAndObsolete ==
    [][UpdateStep =>
         \A l \in LocaleSet :
            LET old == MessagesOf(po, l)
                new == MessagesOf(po', l)
                Used(o, e) ==
                   /\ e.id \notin Ids(old)
                   /\ e.fuzzy
                   /\ o.string # <<>>
                   /\ e.string = o.string
                   /\ CloseIds(o.id, e.id)
            IN /\ po'[l] # None
               /\ Ids(new) = Ids(TemplateRead)
               /\ \A i \in 1..Len(old) :
                     old[i].id \notin Ids(TemplateRead) =>
                        \/ [id |-> old[i].id, string |-> old[i].string] \in po'[l][1].obsolete
                        \/ \E j \in 1..Len(new) : Used(old[i], new[j])
               /\ \A j \in 1..Len(new) :
                     new[j].id \notin Ids(old) =>
                        \/ new[j].string = <<>> /\ ~new[j].fuzzy
                        \/ \E i \in 1..Len(old) : Used(old[i], new[j])]_vars

\* update has given a new identity the translation of a close one, and has
\* kept a dropped entry as obsolete.
C4_Witness ==
    /\ cmd = "update"
    /\ \E i \in 1..Len(MessagesOf(po, de)) :
          LET e == MessagesOf(po, de)[i]
          IN e.fuzzy /\ e.string # <<>> /\ e.string # Tr(e.id)
    /\ po[de] # None
    /\ po[de][1].obsolete # {}

\* The identity, string, fuzzy flag and locations of the entries of the catalogs.
EntriesOf(files) == [l \in LocaleSet |-> MessagesOf(files, l)]

\* C5: a run of update that follows a run of update, the template being the
\* same, leaves the string, the fuzzy flag and the locations of every entry
\* as the first run wrote them.
C5_UpdateIdempotent ==
    [][(cmd = "update" /\ cmd' = "update") => EntriesOf(po') = EntriesOf(po)]_vars

\* update has run, on catalogs new and old: one holds a translation, one a
\* fuzzy match, one nothing but empty entries.
C5_Witness ==
    /\ cmd = "update"
    /\ raised = None
    /\ \E i \in 1..Len(MessagesOf(po, de)) :
          MessagesOf(po, de)[i].fuzzy /\ MessagesOf(po, de)[i].string # <<>>
    /\ \E i \in 1..Len(MessagesOf(po, de)) :
          ~MessagesOf(po, de)[i].fuzzy /\ MessagesOf(po, de)[i].string # <<>>
    /\ \E i \in 1..Len(MessagesOf(po, pt_BR)) : MessagesOf(po, pt_BR)[i].string = <<>>

(***************************************************************************)
(* One command, run on the files a documentation of any size leaves        *)
(***************************************************************************)
Letters == <<"a", "b", "c", "d", "x", "y">>

\* The text of block i: "aa", "ab", ..., "yy".
BlockText(i) == <<Letters[((i - 1) \div 6) + 1], Letters[((i - 1) % 6) + 1]>>

\* A document of the given blocks, one blank line between two of them.
DocOf(texts) ==
    [i \in 1..(2 * Len(texts) - 1) |->
        IF i % 2 = 1 THEN texts[(i + 1) \div 2] \o <<"\n">> ELSE <<"\n">>]

\* The tree of a documentation of n blocks, dealt in turn to the three files;
\* with dup, b/x.md starts with the first block of a/x.md.
RunTree(n, dup) ==
    [f \in FileSet |->
        LET mine == SelectSeq([i \in 1..n |-> i], LAMBDA i : Files[((i - 1) % 3) + 1] = f)
            texts == [k \in 1..Len(mine) |->
                        IF dup /\ f = Files[2] /\ k = 1 THEN BlockText(1)
                        ELSE BlockText(mine[k])]
        IN IF mine = <<>> THEN None ELSE Some(DocOf(texts))]

\* The catalog update creates in a new locale directory.
Created(l, tmpl) == WriteCatalog(CatalogUpdate(NewCatalog(l), tmpl))

\* The catalog once the translators have worked: every message is translated
\* but the last u ones, which are left empty, fuzzy or blank in turn.
Translated(catalog, u) ==
    LET msgs == catalog.messages
    IN [catalog EXCEPT !.messages =
          [i \in 1..Len(msgs) |->
              IF i <= Len(msgs) - u THEN [msgs[i] EXCEPT !.string = Tr(msgs[i].id)]
              ELSE IF i % 3 = 0 THEN msgs[i]
              ELSE IF i % 3 = 1
              THEN [msgs[i] EXCEPT !.string = Tr(msgs[i].id), !.fuzzy = TRUE]
              ELSE [msgs[i] EXCEPT !.string = <<" ">>]]]

\* Documents an earlier run of generate left.
Earlier == [k \in {"y.md"} |-> <<Tr(xy), <<"\n", "\n">>>>]

\* The files before a command runs, for a documentation of at most maxn
\* blocks: extract wrote messages.pot from the tree (or, with missing, has not
\* run); update made the catalogs from it, or from the template of a tree with
\* a block less or more (lag); de is translated but for u messages, pt_BR is
\* translated or not; an earlier generate may have left documents.
Installed(maxn, missing) ==
    /\ TokIdle
    /\ todo = {} /\ visited = <<>> /\ template = <<>> /\ epc = "idle"
    /\ cmd = "none" /\ stdout = <<>> /\ raised = None /\ status = 0 /\ extracts = 0
    /\ \E n \in 0..maxn, dup \in BOOLEAN, lag \in {-1, 0, 1} :
          /\ n + lag >= 0
          /\ tree = RunTree(n, dup)
          /\ \E p \in PotsOf(tree) :
                /\ pot \in {Some(p)} \cup (IF missing THEN {None} ELSE {})
                /\ \E q \in IF lag = 0 THEN {p} ELSE PotsOf(RunTree(n + lag, dup)) :
                      LET new == Created(de, q)
                          created == [l \in LocaleSet |-> [new EXCEPT !.locale = l]]
                          done == [l \in LocaleSet |-> Translated(created[l], 0)]
                      IN \E u \in 0..MaxMissing, other \in {created[pt_BR], done[pt_BR]} :
                            po = [l \in LocaleSet |->
                                    IF l = de THEN Some(Translated(created[de], u))
                                    ELSE IF l = pt_BR THEN Some(other)
                                    ELSE Some(created[en_US])]
    /\ \E earlier \in BOOLEAN :
          out = [d \in DestDirs |-> IF earlier THEN Some(Earlier) ELSE None]

PoFiles == {l \in LocaleSet : po[l] # None}

\* generate: sorted(po_files) gives the order; one catalog file may fail to open.
Generate ==
    /\ cmd' = "generate"
    /\ IF pot = None
       THEN /\ raised' = Some(<<"FileNotFoundError", <<>>>>)
            /\ stdout' = <<>>
            /\ status' = 1
            /\ out' = out
       ELSE \E bad \in BadChoices :
               LET st == GenerateFiles([out |-> out, stdout |-> <<>>, raised |-> None],
                                       Sorted(PoFiles), bad, pot[1])
               IN /\ out' = st.out
                  /\ stdout' = st.stdout
                  /\ raised' = st.raised
                  /\ status' = IF st.raised = None THEN 0 ELSE 1
    /\ UNCHANGED <<tokVars, extVars, pot, po, extracts>>

\* check: glob lists the files in any order; sys.exit(has_errors and 1 or 0).
Check ==
    /\ cmd' = "check"
    /\ \E codes \in Orders(PoFiles), bad \in BadChoices, withErrors \in SUBSET PoFiles :
          LET st == CheckFiles([stdout |-> <<>>, raised |-> None, has_errors |-> FALSE],
                               codes, bad, withErrors)
          IN /\ stdout' = st.stdout
             /\ raised' = st.raised
             /\ status' = IF st.raised # None \/ st.has_errors THEN 1 ELSE 0
    /\ UNCHANGED <<tokVars, extVars, pot, po, out, extracts>>

\* generate, for a documentation of up to MaxTotal blocks.
GenInit == Installed(MaxTotal, FALSE)

GenNext == cmd = "none" /\ Generate

SpecGen == GenInit /\ [][GenNext]_vars

\* update, generate or check, for a small documentation.
RunInit == Installed(MaxDocs, TRUE)

RunNext ==
    \/ cmd = "none" /\ UpdateRun(BadChoices, Orders(LocaleSet))
    \/ cmd = "none" /\ Generate
    \/ cmd = "none" /\ Check

SpecRun == RunInit /\ [][RunNext]_vars

(***************************************************************************)
(* Claims about generate                                                   *)
(***************************************************************************)
\* The lines generate or check printed for a locale.
LinesOf(output, l) == {i \in 1..Len(output) : output[i][2] = l}

\* The locales generate and check process.
Processed == PoFiles \ {en_US}

\* The entries of a locale catalog that count as translated: not fuzzy, a
\* translation that differs from the template entry's string (if the template
\* has the entry) and is not blank.
Valid(l) ==
    {i \in 1..Len(MessagesOf(po, l)) :
        LET m == MessagesOf(po, l)[i]
        IN /\ ~m.fuzzy
           /\ Strip(m.string) # <<>>
           /\ m.id \in Ids(TemplateRead) => m.string # OldMsg(TemplateRead, m.id).string}

\* The run of generate ended with an I/O failure.
IOFailure == raised # None /\ raised[1][1] = "OSError"

\* C6, as the claim states it: whatever the template and the locale catalogs,
\* a run of generate that no I/O failure ends computes, for every locale, the
\* fraction nb_translated / number of template entries, which lies in [0, 1].
C6_FractionForEveryCatalog ==
    (cmd = "generate" /\ pot # None /\ ~IOFailure) =>
       \A l \in Processed :
          /\ Len(TemplateRead) > 0
          /\ Cardinality(Valid(l)) <= Len(TemplateRead)
          /\ \E i \in LinesOf(stdout, l) :
                /\ stdout[i][3][1] = Cardinality(Valid(l))
                /\ stdout[i][3][2] = Len(TemplateRead)

\* The locations <<i, j>> of a locale catalog in a source file, or in the
\* files of a name.
PlacesIn(l, f) ==
    {p \in (1..Len(MessagesOf(po, l))) \X (1..3) :
        /\ p[2] <= Len(MessagesOf(po, l)[p[1]].locations)
        /\ MessagesOf(po, l)[p[1]].locations[p[2]][1] = f}

\* The file names of the locations of a locale catalog.
NamesOf(l) == {Name(f) : f \in {g \in FileSet : PlacesIn(l, g) # {}}}

PlacesNamed(l, k) == UNION {PlacesIn(l, f) : f \in {g \in FileSet : Name(g) = k}}

\* C7: for a locale whose fraction generate computed, the documents are written
\* if and only if the fraction rounded to two decimals is at least 0.90, that
\* is if the fraction is at least 0.895 (no fraction of the model is a tie);
\* below, the output directory is as it was: absent if it was absent, and no
\* file of it is written or changed.
C7_GateAtCutoff ==
    [][cmd' = "generate" =>
         \A l \in LocaleSet \ {en_US} : \A i \in LinesOf(stdout', l) :
            IF 200 * Cardinality(Valid(l)) >= 179 * Len(TemplateRead)
            THEN /\ stdout'[i][1] = "[+]"
                 /\ out'[Replace(l)] # None
                 /\ \A k \in NamesOf(l) :
                       /\ k \in DOMAIN out'[Replace(l)][1]
                       /\ Len(out'[Replace(l)][1][k]) > 0
            ELSE /\ stdout'[i][1] = "[-]"
                 /\ out'[Replace(l)] = out[Replace(l)]]_vars

\* generate has written the documents of a locale with 9 translations out of
\* 10, and has left alone the older documents of a locale below the cutoff.
C7_Witness ==
    /\ cmd = "generate"
    /\ \E i \in LinesOf(stdout, de) : stdout[i] = <<"[+]", de, <<9, 10, 90>>>>
    /\ out[Replace(de)] # None
    /\ "x.md" \in DOMAIN out[Replace(de)][1]
    /\ \E i \in LinesOf(stdout, pt_BR) : stdout[i][1] = "[-]"
    /\ out[Replace(pt_BR)] = Some(Earlier)

\* The text regeneration is to emit for an entry.
Chosen(m) == IF ~m.fuzzy /\ Strip(m.string) # <<>> THEN m.string ELSE m.id

\* The document of source file f for locale l: the texts of the locations in
\* f, by ascending line, each followed by two newlines.
DocumentOf(l, f) ==
    LET msgs == MessagesOf(po, l)
        line(p) == msgs[p[1]].locations[p[2]][2]
        at(r) == CHOOSE p \in PlacesIn(l, f) :
                    Cardinality({q \in PlacesIn(l, f) : line(q) < line(p)}) = r - 1
    IN [c \in 1..(2 * Cardinality(PlacesIn(l, f))) |->
          IF c % 2 = 1 THEN Chosen(msgs[at((c + 1) \div 2)[1]]) ELSE <<"\n", "\n">>]

\* The locales whose documents the run of generate wrote.
Regenerated == {l \in LocaleSet : \E i \in LinesOf(stdout, l) : stdout[i][1] = "[+]"}

\* C8, as the claim states it: for a locale that passes the gate, every source
\* file with a location in the catalog has its destination document, which
\* holds the texts of its locations and of no other file, by ascending line,
\* each followed by two newlines.
C8_OneDocumentPerSourceFile ==
    cmd = "generate" =>
       \A l \in Regenerated : \A f \in FileSet :
          PlacesIn(l, f) # {} =>
             /\ out[Replace(l)] # None
             /\ Name(f) \in DOMAIN out[Replace(l)][1]
             /\ out[Replace(l)][1][Name(f)] = DocumentOf(l, f)

\* C9: in the documents of a locale that passes the gate, every location of
\* every entry has its text, which is the translation if it is not fuzzy and
\* not blank, and the identity otherwise: a document holds a text as many
\* times as the catalog has locations of its name with that text, and nothing
\* else.
C9_TextOfEveryLocation ==
    cmd = "generate" =>
       \A l \in Regenerated : \A k \in NamesOf(l) :
          LET doc == out[Replace(l)][1][k]
              msgs == MessagesOf(po, l)
              places == PlacesNamed(l, k)
          IN /\ Len(doc) = 2 * Cardinality(places)
             /\ \A p \in places :
                   Cardinality({c \in 1..Len(doc) : c % 2 = 1 /\ doc[c] = Chosen(msgs[p[1]])})
                   = Cardinality({q \in places : Chosen(msgs[q[1]]) = Chosen(msgs[p[1]])})

\* generate has written the documents of a locale that has a fuzzy, a blank
\* and an empty entry.
C9_Witness ==
    /\ cmd = "generate"
    /\ de \in Regenerated
    /\ \E i, j, k \in 1..Len(MessagesOf(po, de)) :
          /\ MessagesOf(po, de)[i].fuzzy /\ MessagesOf(po, de)[i].string # <<>>
          /\ MessagesOf(po, de)[j].string = <<" ">>
          /\ MessagesOf(po, de)[k].string = <<>>

(***************************************************************************)
(* Claim about the failures                                                *)
(***************************************************************************)
\* The locales a command processes.
LocalesOf(command) == IF command = "update" THEN LocaleSet ELSE Processed

\* C10, as the claim states it: when the catalog of a locale cannot be read,
\* the run of update, generate or check still processes every other locale,
\* and its exit status tells the failure.
C10_FailuresIsolated ==
    (cmd \in {"update", "generate", "check"} /\ IOFailure) =>
       /\ status = 1
       /\ \A l \in LocalesOf(cmd) \ {raised[1][2]} : LinesOf(stdout, l) # {}

=============================================================================
